---- MODULE Spec2Model ----
(***************************************************************************)
(* Model of script.py (eudoxia0/diy-clozemaster): the batch pipeline that  *)
(* turns Tatoeba sentence pairs into cloze flashcards.                     *)
(*                                                                         *)
(* A Python str is a sequence of one-character strings, a word is a str,   *)
(* a Counter is the sequence of its [w, n] items in insertion order.       *)
(***************************************************************************)
EXTENDS Integers, Sequences, FiniteSets, TLC

\* ------------------------------------------------------------------ bounds

\* Longest input file of the general corpus, in rows.
MaxRows == 3
\* Longest input file of the reuse-cap corpus, in rows.
MaxCapRows == 5
\* Longest token list handed to a direct call of minimize.
MaxMinLen == 2

\* --------------------------------------------------------------- constants

WORD_LIMIT == 10
CLOZE_LIMIT == 3
\* script.py sets 5000; scaled down so that the cutoff excludes words of the
\* small vocabularies below.
MOST_COMMON_WORDS_CUTOFF == 2
\* dump_clozes groups the clozes into units of 100.
UNIT_SIZE == 100

\* ------------------------------------------------------------------ strings

WHITESPACE == {" "}
DIGITS == {"0", "1", "2", "3", "4", "5", "6", "7", "8", "9"}
UPPER == <<"A", "B", "C", "D", "E", "F", "G", "H", "I", "J", "K", "L", "M",
           "N", "O", "P", "Q", "R", "S", "T", "U", "V", "W", "X", "Y", "Z">>
LOWER == <<"a", "b", "c", "d", "e", "f", "g", "h", "i", "j", "k", "l", "m",
           "n", "o", "p", "q", "r", "s", "t", "u", "v", "w", "x", "y", "z">>

\* The character class of the regular expression [\s,\.!?"].
WORD_BOUNDARY == WHITESPACE \cup {",", ".", "!", "?", "\""}

\* "{{1::"
CLOZE_OPEN == <<"{", "{", "1", ":", ":">>
\* "}}"
CLOZE_CLOSE == <<"}", "}">>

RECURSIVE lstrip(_)
lstrip(s) ==
    IF s # <<>> /\ Head(s) \in WHITESPACE THEN lstrip(Tail(s)) ELSE s

RECURSIVE rstrip(_)
rstrip(s) ==
    IF s # <<>> /\ s[Len(s)] \in WHITESPACE
    THEN rstrip(SubSeq(s, 1, Len(s) - 1))
    ELSE s

\* str.strip()
strip(s) == rstrip(lstrip(s))

lower_char(c) ==
    IF \E k \in 1..Len(UPPER) : UPPER[k] = c
    THEN LOWER[CHOOSE k \in 1..Len(UPPER) : UPPER[k] = c]
    ELSE c

\* str.lower()
lower(s) == [k \in 1..Len(s) |-> lower_char(s[k])]

\* str.isdigit(): non-empty and every character a digit
isdigit(s) == s # <<>> /\ \A k \in 1..Len(s) : s[k] \in DIGITS

\* s.replace(c, "") for a one-character c
RECURSIVE remove_char(_, _)
remove_char(s, c) ==
    IF s = <<>> THEN <<>>
    ELSE IF Head(s) = c THEN remove_char(Tail(s), c)
    ELSE <<Head(s)>> \o remove_char(Tail(s), c)

starts_with(s, old) ==
    Len(old) <= Len(s) /\ SubSeq(s, 1, Len(old)) = old

\* s.replace(old, new) for a non-empty old: every non-overlapping occurrence,
\* scanning from the left.
RECURSIVE replace(_, _, _)
replace(s, old, new) ==
    IF s = <<>> THEN <<>>
    ELSE IF starts_with(s, old)
    THEN new \o replace(SubSeq(s, Len(old) + 1, Len(s)), old, new)
    ELSE <<Head(s)>> \o replace(Tail(s), old, new)

\* ----------------------------------------------------------------- tokenizer

\* re.split(WORD_BOUNDARY, line): the fragments between boundary characters,
\* the empty ones included.
RECURSIVE re_split(_, _, _)
re_split(line, cur, acc) ==
    IF line = <<>> THEN Append(acc, cur)
    ELSE IF Head(line) \in WORD_BOUNDARY
    THEN re_split(Tail(line), <<>>, Append(acc, cur))
    ELSE re_split(Tail(line), Append(cur, Head(line)), acc)

\* [f(x) for x in l if keep(x)] helpers
RECURSIVE strip_nonempty(_)
strip_nonempty(l) ==
    IF l = <<>> THEN <<>>
    ELSE IF strip(Head(l)) # <<>>
    THEN <<strip(Head(l))>> \o strip_nonempty(Tail(l))
    ELSE strip_nonempty(Tail(l))

RECURSIVE drop_numbers(_)
drop_numbers(l) ==
    IF l = <<>> THEN <<>>
    ELSE IF ~isdigit(Head(l))
    THEN <<Head(l)>> \o drop_numbers(Tail(l))
    ELSE drop_numbers(Tail(l))

words(line) == drop_numbers(strip_nonempty(re_split(line, <<>>, <<>>)))

\* ------------------------------------------------------------------- Counter

\* c[w]: a Counter gives 0 for a missing key
counter_get(c, w) ==
    IF \E k \in 1..Len(c) : c[k].w = w
    THEN c[CHOOSE k \in 1..Len(c) : c[k].w = w].n
    ELSE 0

\* One element of Counter.update: an existing key keeps its place, a new key
\* is inserted last.
counter_add(c, w) ==
    IF \E k \in 1..Len(c) : c[k].w = w
    THEN [k \in 1..Len(c) |-> IF c[k].w = w THEN [w |-> w, n |-> c[k].n + 1]
                                            ELSE c[k]]
    ELSE Append(c, [w |-> w, n |-> 1])

\* Counter.update(sentence)
RECURSIVE counter_update(_, _)
counter_update(c, sentence) ==
    IF sentence = <<>> THEN c
    ELSE counter_update(counter_add(c, Head(sentence)), Tail(sentence))

\* Item j comes before item i in Counter.most_common(): higher count first,
\* equal counts in the order first encountered.
most_common_before(c, j, i) ==
    c[j].n > c[i].n \/ (c[j].n = c[i].n /\ j < i)

most_common_rank(c, i) ==
    1 + Cardinality({j \in 1..Len(c) : most_common_before(c, j, i)})

\* Counter.most_common(n)
most_common_n(c, n) ==
    [k \in 1..(IF n < Len(c) THEN n ELSE Len(c)) |->
        c[CHOOSE i \in 1..Len(c) : most_common_rank(c, i) = k]]

\* most_common(c): c.most_common(1)[0][0]; the index raises on an empty list
most_common(c) ==
    IF most_common_n(c, 1) = <<>>
    THEN [ok |-> FALSE, value |-> <<>>]
    ELSE [ok |-> TRUE, value |-> most_common_n(c, 1)[1].w]

RECURSIVE build_table(_, _)
build_table(table, sentences) ==
    IF sentences = <<>> THEN table
    ELSE build_table(counter_update(table, Head(sentences)), Tail(sentences))

\* Variant: the report of the most common word is left out, so an empty table
\* is returned like any other.
language_frequency_table_silent(sentences) ==
    [ok |-> TRUE, table |-> build_table(<<>>, sentences)]

\* language_frequency_table: the table, or ok = FALSE when the report of the
\* most common word raises (least_common and counter_avg, which follow it,
\* raise on the same tables).
language_frequency_table(sentences) ==
    LET table == build_table(<<>>, sentences)
    IN  [ok |-> most_common(table).ok, table |-> table]

most_common_words(c) ==
    {most_common_n(c, MOST_COMMON_WORDS_CUTOFF)[k].w :
        k \in 1..Len(most_common_n(c, MOST_COMMON_WORDS_CUTOFF))}

\* ------------------------------------------------------------------- sorting

RECURSIVE sum_freq(_, _)
sum_freq(ws, tbl) ==
    IF ws = <<>> THEN 0
    ELSE counter_get(tbl, Head(ws)) + sum_freq(Tail(ws), tbl)

\* avg_freq: the quotient sum / len as the fraction <<sum, len>>
avg_freq(ws, tbl) == <<sum_freq(ws, tbl), Len(ws)>>

\* The key of sort_pairs, avg_freq(p.fra_words) / len(p.fra_words), as a
\* fraction.  Keys are compared exactly; the double-precision quotients of
\* the source order the same way for every sum below 99.
sort_key(p, fra_freq) ==
    <<avg_freq(p.fra_words, fra_freq)[1],
      avg_freq(p.fra_words, fra_freq)[2] * Len(p.fra_words)>>

key_less(a, b) == a[1] * b[2] < b[1] * a[2]

\* Variant: p goes before the elements of equal key as well, which reverses
\* the input order of equal keys.
insert_sorted_unstable(sorted, p, fra_freq) ==
    LET notgreater == {k \in 1..Len(sorted) :
                         ~key_less(sort_key(p, fra_freq), sort_key(sorted[k], fra_freq))}
        at == IF notgreater = {} THEN Len(sorted) + 1
              ELSE CHOOSE k \in notgreater : \A m \in notgreater : k <= m
    IN  SubSeq(sorted, 1, at - 1) \o <<p>> \o SubSeq(sorted, at, Len(sorted))

\* Where a stable descending sort puts p into an already sorted list: before
\* the first element with a strictly smaller key.
insert_sorted(sorted, p, fra_freq) ==
    LET smaller == {k \in 1..Len(sorted) :
                      key_less(sort_key(sorted[k], fra_freq), sort_key(p, fra_freq))}
        at == IF smaller = {} THEN Len(sorted) + 1
              ELSE CHOOSE k \in smaller : \A m \in smaller : k <= m
    IN  SubSeq(sorted, 1, at - 1) \o <<p>> \o SubSeq(sorted, at, Len(sorted))

RECURSIVE sorted_desc(_, _, _)
sorted_desc(sorted, rest, fra_freq) ==
    IF rest = <<>> THEN sorted
    ELSE sorted_desc(insert_sorted(sorted, Head(rest), fra_freq), Tail(rest), fra_freq)

\* sorted(pairs, key=..., reverse=True)
sort_pairs(pairs, fra_freq) == sorted_desc(<<>>, pairs, fra_freq)

\* --------------------------------------------------------- remove duplicates

\* text.replace("!", "").replace(".", "").replace(",", "").strip()
stripped(text) ==
    strip(remove_char(remove_char(remove_char(text, "!"), "."), ","))

\* The loop of remove_duplicates over its locals.
RECURSIVE remove_duplicates_loop(_, _)
remove_duplicates_loop(st, pairs) ==
    IF pairs = <<>> THEN st
    ELSE LET pair == Head(pairs)
             stripped_eng == stripped(pair.eng)
             stripped_fra == stripped(pair.fra)
         IN  IF stripped_eng \in st.seen_eng \/ stripped_fra \in st.seen_fra
             THEN remove_duplicates_loop(
                      [st EXCEPT !.skipped = st.skipped + 1], Tail(pairs))
             ELSE remove_duplicates_loop(
                      [result |-> Append(st.result, pair),
                       seen_eng |-> st.seen_eng \cup {stripped_eng},
                       seen_fra |-> st.seen_fra \cup {stripped_fra},
                       skipped |-> st.skipped], Tail(pairs))

remove_duplicates_locals(pairs) ==
    remove_duplicates_loop(
        [result |-> <<>>, seen_eng |-> {}, seen_fra |-> {}, skipped |-> 0], pairs)

\* remove_duplicates returns its argument, not the list it built.
remove_duplicates(pairs) == pairs

\* ------------------------------------------------------------------ minimize

\* float("inf"); a count is never negative
INF == -1

RECURSIVE minimize_loop(_, _, _, _, _)
minimize_loop(lst, tbl, idx, smallest_index, smallest_value) ==
    IF idx > Len(lst) THEN smallest_index
    ELSE LET val == counter_get(tbl, lst[idx])
         IN  IF smallest_value = INF \/ val < smallest_value
             THEN minimize_loop(lst, tbl, idx + 1, idx, val)
             ELSE minimize_loop(lst, tbl, idx + 1, smallest_index, smallest_value)

\* Variant: "<=" for "<" in the loop, so the last least token wins.
RECURSIVE minimize_loop_last(_, _, _, _, _)
minimize_loop_last(lst, tbl, idx, smallest_index, smallest_value) ==
    IF idx > Len(lst) THEN smallest_index
    ELSE LET val == counter_get(tbl, lst[idx])
         IN  IF smallest_value = INF \/ val <= smallest_value
             THEN minimize_loop_last(lst, tbl, idx + 1, idx, val)
             ELSE minimize_loop_last(lst, tbl, idx + 1, smallest_index, smallest_value)

minimize_last(lst, tbl) ==
    IF Len(lst) = 0
    THEN [ok |-> FALSE, value |-> <<>>]
    ELSE [ok |-> TRUE, value |-> lst[minimize_loop_last(lst, tbl, 1, 1, INF)]]

\* minimize(lst, lambda w: tbl[w]): the assertion (or, with assertions
\* compiled out, the index into the empty list) raises on an empty list.
minimize(lst, tbl) ==
    IF Len(lst) = 0
    THEN [ok |-> FALSE, value |-> <<>>]
    ELSE [ok |-> TRUE, value |-> lst[minimize_loop(lst, tbl, 1, 1, INF)]]

\* group(lst, n)
RECURSIVE group(_, _)
group(lst, n) ==
    IF lst = <<>> THEN <<>>
    ELSE IF Len(lst) <= n THEN <<lst>>
    ELSE <<SubSeq(lst, 1, n)>> \o group(SubSeq(lst, n + 1, Len(lst)), n)

\* group plus the row written for each cloze: both fields capitalized
upper_char(c) ==
    IF \E k \in 1..Len(LOWER) : LOWER[k] = c
    THEN UPPER[CHOOSE k \in 1..Len(LOWER) : LOWER[k] = c]
    ELSE c

\* str.capitalize()
capitalize(s) ==
    [k \in 1..Len(s) |-> IF k = 1 THEN upper_char(s[k]) ELSE lower_char(s[k])]

unit_rows(unit) ==
    [k \in 1..Len(unit) |-> <<capitalize(unit[k].eng), capitalize(unit[k].fra)>>]

\* -------------------------------------------------------------- parse helpers

\* "Eu cheguei ontem."
SKIP_LIST ==
    {<<"E", "u", " ", "c", "h", "e", "g", "u", "e", "i", " ",
       "o", "n", "t", "e", "m", ".">>}

\* Variant: the emptiness of the French token list is not looked at.
parse_keep_eng_only(eng_words, fra_words) ==
    ~(Len(fra_words) > WORD_LIMIT) /\ ~(eng_words = <<>>)

\* The two filters of parse_sentences on the token lists: a pair is kept
\* unless the French sentence is long or either side has no proper word.
parse_keep(eng_words, fra_words) ==
    ~(Len(fra_words) > WORD_LIMIT) /\ ~((eng_words = <<>>) \/ (fra_words = <<>>))

\* ------------------------------------------------------------- cloze helpers

\* Variant: ">" for "==" in the comparison with the limit.
cloze_decision_above(cloze_count, rarest, common) ==
    IF counter_get(cloze_count, rarest) > CLOZE_LIMIT THEN "limit"
    ELSE IF rarest \notin common THEN "freq"
    ELSE "card"

\* Variant: the test against the common set is left out.
cloze_decision_no_cutoff(cloze_count, rarest, common) ==
    IF counter_get(cloze_count, rarest) = CLOZE_LIMIT THEN "limit"
    ELSE "card"

\* What build_clozes does with the rarest word of one side.
cloze_decision(cloze_count, rarest, common) ==
    IF counter_get(cloze_count, rarest) = CLOZE_LIMIT THEN "limit"
    ELSE IF rarest \notin common THEN "freq"
    ELSE "card"

\* text.replace(rarest, "{{1::" + rarest + "}}")
cloze_text(text, rarest) ==
    replace(text, rarest, CLOZE_OPEN \o rarest \o CLOZE_CLOSE)

\* Variant: the count is set to 1 instead of raised by 1.
cloze_count_set(cloze_count, rarest) ==
    IF \E k \in 1..Len(cloze_count) : cloze_count[k].w = rarest
    THEN cloze_count
    ELSE Append(cloze_count, [w |-> rarest, n |-> 1])

\* cloze_count.update({rarest: 1})
cloze_count_update(cloze_count, rarest) == counter_add(cloze_count, rarest)

\* -------------------------------------------------------------------- inputs

SeqUpTo(S, n) == UNION {[1..k -> S] : k \in 0..n}

Row(eng, fra) == << <<"1">>, eng, <<"2">>, fra >>

\* The rows a general input file is made of.
Rows ==
    { \* the sentence of the skip list
      Row(<<"I", " ", "c", "a", "m", "e", ".">>,
          <<"E", "u", " ", "c", "h", "e", "g", "u", "e", "i", " ",
            "o", "n", "t", "e", "m", ".">>),
      Row(<<"a", " ", "b", ".">>, <<"c", " ", "d", ".">>),
      \* the same texts up to punctuation and surrounding blanks
      Row(<<" ", "a", " ", "b", "!">>, <<"c", " ", "d", "!">>),
      \* the first word occurs again inside the second
      Row(<<"a", " ", "a", "b">>, <<"d">>),
      Row(<<"b", " ", "a", " ", "c">>, <<"e", ",", " ", "c", " ", "d">>),
      \* eleven French words
      Row(<<"a">>,
          <<"d", " ", "d", " ", "d", " ", "d", " ", "d", " ", "d", " ",
            "d", " ", "d", " ", "d", " ", "d", " ", "d">>),
      \* no proper English word
      Row(<<"1", "2", " ", "?">>, <<"c">>),
      \* no proper French word
      Row(<<"a">>, <<"\"", "7", "\"", "!">>),
      \* a record with fewer than four fields
      << <<"1">>, <<"a">> >> }

\* The rows of the input files that reuse the same few words.
CapRows ==
    { Row(<<"a", " ", "b">>, <<"c", " ", "d">>),
      Row(<<"a">>, <<"c", " ", "b">>),
      Row(<<"b", " ", "a">>, <<"d">>) }

\* The arguments of a direct call of minimize.
MinWords == {<<"a">>, <<"b">>}
MinTables ==
    { <<>>,
      <<[w |-> <<"a">>, n |-> 1], [w |-> <<"b">>, n |-> 1]>>,
      <<[w |-> <<"a">>, n |-> 2], [w |-> <<"b">>, n |-> 1]>>,
      <<[w |-> <<"a">>, n |-> 1], [w |-> <<"b">>, n |-> 2]>> }

\* --------------------------------------------------------------------- state

VARIABLES
    pc,               \* where the run is
    rows,             \* the records of the input file
    row_idx,          \* the next record the reader yields
    pairs,            \* main's pairs (parse_sentences' list while it parses)
    loaded,           \* history: what parse_sentences returned
    loaded_from,      \* history: the record each loaded pair was built from
    eng_freq, fra_freq,
    eng_common, fra_common,
    printed_skipped,  \* the count remove_duplicates prints
    pair_idx,         \* the pair build_clozes is at
    clozes,
    origin,           \* history: pair, side and word of each cloze, in step
    skips,            \* history: pair, side, word and reason of each skipped side
    cloze_count_eng, cloze_count_fra,
    skipped_limit, skipped_freq,
    units,            \* the rows of the unit files written
    min_lst,          \* the list of a direct call of minimize
    min_res           \* and what the call gave

vars == <<pc, rows, row_idx, pairs, loaded, loaded_from, eng_freq, fra_freq,
          eng_common, fra_common, printed_skipped, pair_idx, clozes, origin,
          skips, cloze_count_eng, cloze_count_fra, skipped_limit, skipped_freq,
          units, min_lst, min_res>>

NoResult == [ok |-> FALSE, value |-> <<"-">>]

InitLocals ==
    /\ row_idx = 1
    /\ pairs = <<>>
    /\ loaded = <<>>
    /\ loaded_from = <<>>
    /\ fra_freq = <<>>
    /\ eng_common = {}
    /\ fra_common = {}
    /\ printed_skipped = 0
    /\ pair_idx = 1
    /\ clozes = <<>>
    /\ origin = <<>>
    /\ skips = <<>>
    /\ cloze_count_eng = <<>>
    /\ cloze_count_fra = <<>>
    /\ skipped_limit = 0
    /\ skipped_freq = 0
    /\ units = <<>>
    /\ min_res = NoResult

\* main() on an input file, or minimize() called on its own.
Init ==
    /\ InitLocals
    /\ \/ /\ pc = "parse"
          /\ rows \in SeqUpTo(Rows, MaxRows) \cup SeqUpTo(CapRows, MaxCapRows)
          /\ eng_freq = <<>>
          /\ min_lst = <<>>
       \/ /\ pc = "minimize"
          /\ rows = <<>>
          /\ eng_freq \in MinTables
          /\ min_lst \in SeqUpTo(MinWords, MaxMinLen)

\* ------------------------------------------------------------ parse_sentences

\* One record of the reader's loop.
ParseRow ==
    /\ pc = "parse"
    /\ row_idx <= Len(rows)
    /\ LET row == rows[row_idx]
       IN  IF Len(row) < 4
           THEN \* row[3] raises
                /\ pc' = "error"
                /\ UNCHANGED <<row_idx, pairs, loaded_from>>
           ELSE LET eng == lower(strip(row[2]))
                    fra == lower(strip(row[4]))
                    eng_words == words(eng)
                    fra_words == words(fra)
                    pair == [eng |-> eng, eng_words |-> eng_words,
                             fra |-> fra, fra_words |-> fra_words]
                IN  /\ pc' = pc
                    /\ row_idx' = row_idx + 1
                    /\ IF fra \in SKIP_LIST
                       THEN UNCHANGED <<pairs, loaded_from>>
                       ELSE IF parse_keep(eng_words, fra_words)
                       THEN /\ pairs' = Append(pairs, pair)
                            /\ loaded_from' = Append(loaded_from, row_idx)
                       ELSE UNCHANGED <<pairs, loaded_from>>
    /\ UNCHANGED <<rows, loaded, eng_freq, fra_freq, eng_common, fra_common,
                   printed_skipped, pair_idx, clozes, origin, skips,
                   cloze_count_eng, cloze_count_fra, skipped_limit,
                   skipped_freq, units, min_lst, min_res>>

\* The reader is exhausted: parse_sentences returns its list to main.
ParseReturn ==
    /\ pc = "parse"
    /\ row_idx > Len(rows)
    /\ loaded' = pairs
    /\ pc' = "eng_table"
    /\ UNCHANGED <<rows, row_idx, pairs, loaded_from, eng_freq, fra_freq,
                   eng_common, fra_common, printed_skipped, pair_idx, clozes,
                   origin, skips, cloze_count_eng, cloze_count_fra,
                   skipped_limit, skipped_freq, units, min_lst, min_res>>

\* ----------------------------------------------------------------------- main

EngTable ==
    /\ pc = "eng_table"
    /\ LET r == language_frequency_table(
                    [k \in 1..Len(pairs) |-> pairs[k].eng_words])
       IN  IF r.ok
           THEN eng_freq' = r.table /\ pc' = "fra_table"
           ELSE eng_freq' = eng_freq /\ pc' = "error"
    /\ UNCHANGED <<rows, row_idx, pairs, loaded, loaded_from, fra_freq,
                   eng_common, fra_common, printed_skipped, pair_idx, clozes,
                   origin, skips, cloze_count_eng, cloze_count_fra,
                   skipped_limit, skipped_freq, units, min_lst, min_res>>

FraTable ==
    /\ pc = "fra_table"
    /\ LET r == language_frequency_table(
                    [k \in 1..Len(pairs) |-> pairs[k].fra_words])
       IN  IF r.ok
           THEN fra_freq' = r.table /\ pc' = "common"
           ELSE fra_freq' = fra_freq /\ pc' = "error"
    /\ UNCHANGED <<rows, row_idx, pairs, loaded, loaded_from, eng_freq,
                   eng_common, fra_common, printed_skipped, pair_idx, clozes,
                   origin, skips, cloze_count_eng, cloze_count_fra,
                   skipped_limit, skipped_freq, units, min_lst, min_res>>

Cutoff ==
    /\ pc = "common"
    /\ eng_common' = most_common_words(eng_freq)
    /\ fra_common' = most_common_words(fra_freq)
    /\ pc' = "sort"
    /\ UNCHANGED <<rows, row_idx, pairs, loaded, loaded_from, eng_freq,
                   fra_freq, printed_skipped, pair_idx, clozes, origin, skips,
                   cloze_count_eng, cloze_count_fra, skipped_limit,
                   skipped_freq, units, min_lst, min_res>>

SortPairs ==
    /\ pc = "sort"
    /\ pairs' = sort_pairs(pairs, fra_freq)
    /\ pc' = "dedup"
    /\ UNCHANGED <<rows, row_idx, loaded, loaded_from, eng_freq, fra_freq,
                   eng_common, fra_common, printed_skipped, pair_idx, clozes,
                   origin, skips, cloze_count_eng, cloze_count_fra,
                   skipped_limit, skipped_freq, units, min_lst, min_res>>

RemoveDuplicates ==
    /\ pc = "dedup"
    /\ printed_skipped' = remove_duplicates_locals(pairs).skipped
    /\ pairs' = remove_duplicates(pairs)
    /\ pc' = "first_last"
    /\ UNCHANGED <<rows, row_idx, loaded, loaded_from, eng_freq, fra_freq,
                   eng_common, fra_common, pair_idx, clozes, origin, skips,
                   cloze_count_eng, cloze_count_fra, skipped_limit,
                   skipped_freq, units, min_lst, min_res>>

\* pairs[0].dump() and pairs[-1].dump(), then build_clozes is entered.
FirstLast ==
    /\ pc = "first_last"
    /\ pc' = IF pairs = <<>> THEN "error" ELSE "build"
    /\ UNCHANGED <<rows, row_idx, pairs, loaded, loaded_from, eng_freq,
                   fra_freq, eng_common, fra_common, printed_skipped, pair_idx,
                   clozes, origin, skips, cloze_count_eng, cloze_count_fra,
                   skipped_limit, skipped_freq, units, min_lst, min_res>>

\* --------------------------------------------------------------- build_clozes

\* One iteration of the loop: the English side, then the French side.
BuildStep ==
    /\ pc = "build"
    /\ pair_idx <= Len(pairs)
    /\ LET pair == pairs[pair_idx]
           rarest_eng == minimize(pair.eng_words, eng_freq)
           rarest_fra == minimize(pair.fra_words, fra_freq)
       IN  IF ~rarest_eng.ok \/ ~rarest_fra.ok
           THEN /\ pc' = "error"
                /\ UNCHANGED <<pair_idx, clozes, origin, skips, cloze_count_eng,
                               cloze_count_fra, skipped_limit, skipped_freq>>
           ELSE LET eng_does == cloze_decision(cloze_count_eng, rarest_eng.value,
                                               eng_common)
                    fra_does == cloze_decision(cloze_count_fra, rarest_fra.value,
                                               fra_common)
                    cloze_eng == [eng |-> cloze_text(pair.eng, rarest_eng.value),
                                  fra |-> pair.fra]
                    cloze_fra == [eng |-> pair.eng,
                                  fra |-> cloze_text(pair.fra, rarest_fra.value)]
                    eng_entry == [idx |-> pair_idx, side |-> "eng",
                                  word |-> rarest_eng.value, does |-> eng_does]
                    fra_entry == [idx |-> pair_idx, side |-> "fra",
                                  word |-> rarest_fra.value, does |-> fra_does]
                IN  /\ pc' = pc
                    /\ pair_idx' = pair_idx + 1
                    /\ clozes' =
                         (clozes
                            \o (IF eng_does = "card" THEN <<cloze_eng>> ELSE <<>>))
                            \o (IF fra_does = "card" THEN <<cloze_fra>> ELSE <<>>)
                    /\ origin' =
                         (origin
                            \o (IF eng_does = "card" THEN <<eng_entry>> ELSE <<>>))
                            \o (IF fra_does = "card" THEN <<fra_entry>> ELSE <<>>)
                    /\ skips' =
                         (skips
                            \o (IF eng_does # "card" THEN <<eng_entry>> ELSE <<>>))
                            \o (IF fra_does # "card" THEN <<fra_entry>> ELSE <<>>)
                    /\ cloze_count_eng' =
                         IF eng_does = "card"
                         THEN cloze_count_update(cloze_count_eng, rarest_eng.value)
                         ELSE cloze_count_eng
                    /\ cloze_count_fra' =
                         IF fra_does = "card"
                         THEN cloze_count_update(cloze_count_fra, rarest_fra.value)
                         ELSE cloze_count_fra
                    /\ skipped_limit' =
                         skipped_limit + (IF eng_does = "limit" THEN 1 ELSE 0)
                                       + (IF fra_does = "limit" THEN 1 ELSE 0)
                    /\ skipped_freq' =
                         skipped_freq + (IF eng_does = "freq" THEN 1 ELSE 0)
                                      + (IF fra_does = "freq" THEN 1 ELSE 0)
    /\ UNCHANGED <<rows, row_idx, pairs, loaded, loaded_from, eng_freq,
                   fra_freq, eng_common, fra_common, printed_skipped, units,
                   min_lst, min_res>>

\* The loop is over: build_clozes returns the list to main.
BuildReturn ==
    /\ pc = "build"
    /\ pair_idx > Len(pairs)
    /\ pc' = "dump"
    /\ UNCHANGED <<rows, row_idx, pairs, loaded, loaded_from, eng_freq,
                   fra_freq, eng_common, fra_common, printed_skipped, pair_idx,
                   clozes, origin, skips, cloze_count_eng, cloze_count_fra,
                   skipped_limit, skipped_freq, units, min_lst, min_res>>

DumpClozes ==
    /\ pc = "dump"
    /\ units' = [u \in 1..Len(group(clozes, UNIT_SIZE)) |->
                    unit_rows(group(clozes, UNIT_SIZE)[u])]
    /\ pc' = "done"
    /\ UNCHANGED <<rows, row_idx, pairs, loaded, loaded_from, eng_freq,
                   fra_freq, eng_common, fra_common, printed_skipped, pair_idx,
                   clozes, origin, skips, cloze_count_eng, cloze_count_fra,
                   skipped_limit, skipped_freq, min_lst, min_res>>

\* ------------------------------------------------------------------- minimize

CallMinimize ==
    /\ pc = "minimize"
    /\ min_res' = minimize(min_lst, eng_freq)
    /\ pc' = IF minimize(min_lst, eng_freq).ok THEN "minimized" ELSE "raised"
    /\ UNCHANGED <<rows, row_idx, pairs, loaded, loaded_from, eng_freq,
                   fra_freq, eng_common, fra_common, printed_skipped, pair_idx,
                   clozes, origin, skips, cloze_count_eng, cloze_count_fra,
                   skipped_limit, skipped_freq, units, min_lst>>

Next ==
    \/ ParseRow
    \/ ParseReturn
    \/ EngTable
    \/ FraTable
    \/ Cutoff
    \/ SortPairs
    \/ RemoveDuplicates
    \/ FirstLast
    \/ BuildStep
    \/ BuildReturn
    \/ DumpClozes
    \/ CallMinimize

Spec == Init /\ [][Next]_vars

\* ------------------------------------------------------------ claim helpers

Min(a, b) == IF a < b THEN a ELSE b

Range(f) == {f[k] : k \in DOMAIN f}

RECURSIVE SumCounts(_)
SumCounts(c) == IF c = <<>> THEN 0 ELSE Head(c).n + SumCounts(Tail(c))

\* parse_sentences has returned its list to main.
ParseReturned ==
    \/ pc \in {"eng_table", "fra_table", "common", "sort", "dedup",
               "first_last", "build", "dump", "done"}
    \/ pc = "error" /\ row_idx > Len(rows)

\* build_clozes is running or has returned; pairs 1..pair_idx-1 are processed.
InBuild == pc \in {"build", "dump", "done"}

\* The leftmost token of ws whose count in tbl is the least of the list.
LeftmostMin(ws, tbl) ==
    ws[CHOOSE k \in 1..Len(ws) :
          /\ \A j \in 1..Len(ws) : counter_get(tbl, ws[j]) >= counter_get(tbl, ws[k])
          /\ \A j \in 1..(k - 1) : counter_get(tbl, ws[j]) > counter_get(tbl, ws[k])]

SideWords(pair, side) == IF side = "eng" THEN pair.eng_words ELSE pair.fra_words
SideFreq(side) == IF side = "eng" THEN eng_freq ELSE fra_freq
SideCommon(side) == IF side = "eng" THEN eng_common ELSE fra_common
SideCount(side) == IF side = "eng" THEN cloze_count_eng ELSE cloze_count_fra

\* The processed pairs whose rarest word on a side is w.
Selections(side, w) ==
    {i \in 1..(pair_idx - 1) :
        LeftmostMin(SideWords(pairs[i], side), SideFreq(side)) = w}

CardsFor(side, w) ==
    {k \in 1..Len(origin) : origin[k].side = side /\ origin[k].word = w}

LimitSkipsFor(side, w) ==
    {k \in 1..Len(skips) :
        skips[k].side = side /\ skips[k].word = w /\ skips[k].does = "limit"}

\* -------------------------------------------------------------------- claims

\* C1: on each language side, a word of the common set that is the rarest
\* word of n processed pairs has min(n, CLOZE_LIMIT) cards and
\* n - min(n, CLOZE_LIMIT) skips tallied as "limit reached", and no usage
\* counter ever exceeds CLOZE_LIMIT.
C1_ReuseCap ==
    /\ \A side \in {"eng", "fra"} :
         \A k \in 1..Len(SideCount(side)) : SideCount(side)[k].n <= CLOZE_LIMIT
    /\ InBuild =>
         /\ \A side \in {"eng", "fra"} : \A w \in SideCommon(side) :
              LET n == Cardinality(Selections(side, w))
              IN  /\ Cardinality(CardsFor(side, w)) = Min(n, CLOZE_LIMIT)
                  /\ Cardinality(LimitSkipsFor(side, w)) = n - Min(n, CLOZE_LIMIT)
                  /\ counter_get(SideCount(side), w) = Min(n, CLOZE_LIMIT)
         /\ skipped_limit =
              Cardinality({k \in 1..Len(skips) : skips[k].does = "limit"})

\* A common English word was the rarest word of five pairs: three cards, two
\* limit skips.
C1_Witness ==
    /\ pc = "done"
    /\ \E w \in eng_common :
         /\ Cardinality(Selections("eng", w)) = 5
         /\ Cardinality(CardsFor("eng", w)) = 3
         /\ Cardinality(LimitSkipsFor("eng", w)) = 2

\* C3: no card blanks a word outside the common set of its language: a side
\* whose rarest word is not common yields no card for that pair.
C3_FrequencyCutoff ==
    InBuild =>
      /\ \A k \in 1..Len(origin) : origin[k].word \in SideCommon(origin[k].side)
      /\ \A side \in {"eng", "fra"} : \A i \in 1..(pair_idx - 1) :
           LeftmostMin(SideWords(pairs[i], side), SideFreq(side))
               \notin SideCommon(side)
           => ~\E k \in 1..Len(origin) :
                  origin[k].idx = i /\ origin[k].side = side

\* A side was skipped because its rarest word is below the cutoff, while
\* another side got a card.
C3_Witness ==
    /\ pc = "done"
    /\ \E k \in 1..Len(skips) :
         /\ skips[k].does = "freq"
         /\ skips[k].word \notin SideCommon(skips[k].side)
    /\ clozes # <<>>

\* C7: every processed pair has at most one English-side and at most one
\* French-side card, and the number of cards is the sum of the two usage
\* counters.
C7_CardAccounting ==
    InBuild =>
      /\ Len(origin) = Len(clozes)
      /\ \A k, m \in 1..Len(origin) :
           (origin[k].idx = origin[m].idx /\ origin[k].side = origin[m].side)
           => k = m
      /\ \A k \in 1..Len(origin) : origin[k].idx \in 1..(pair_idx - 1)
      /\ Len(clozes) <= 2 * (pair_idx - 1)
      /\ Len(clozes) = SumCounts(cloze_count_eng) + SumCounts(cloze_count_fra)

\* Some pair gave two cards, some side gave none, and a word was used twice.
C7_Witness ==
    /\ pc = "done"
    /\ \E k, m \in 1..Len(origin) : k # m /\ origin[k].idx = origin[m].idx
    /\ skips # <<>>
    /\ \E k \in 1..Len(cloze_count_eng) : cloze_count_eng[k].n >= 2

\* C10: the word selected for a side is the leftmost token of least count,
\* in build_clozes and in a direct call of minimize.
C10_RarestWord ==
    /\ InBuild =>
         \A e \in Range(origin) \cup Range(skips) :
             e.word = LeftmostMin(SideWords(pairs[e.idx], e.side), SideFreq(e.side))
    /\ pc = "minimized" => min_res.value = LeftmostMin(min_lst, eng_freq)

\* A selection among tokens that tie for the least count, and one where the
\* rarest word is not the first token.
C10_Witness ==
    /\ pc = "done"
    /\ \E e \in Range(origin) :
         LET ws == SideWords(pairs[e.idx], e.side)
         IN  \E j \in 2..Len(ws) :
               /\ ws[j] # ws[1]
               /\ counter_get(SideFreq(e.side), ws[j]) =
                    counter_get(SideFreq(e.side), e.word)
    /\ \E e \in Range(origin) \cup Range(skips) :
         e.word # SideWords(pairs[e.idx], e.side)[1]

\* The pair parse_sentences builds from a well-formed record.
PairOf(row) ==
    [eng |-> lower(strip(row[2])), eng_words |-> words(lower(strip(row[2]))),
     fra |-> lower(strip(row[4])), fra_words |-> words(lower(strip(row[4])))]

\* C8: every loaded pair has tokens on both sides and at most WORD_LIMIT
\* French tokens; every record off the skip list that meets both conditions
\* is loaded; the loaded pairs are in the order of their records.
C8_LoaderInvariant ==
    ParseReturned =>
      /\ Len(loaded_from) = Len(loaded)
      /\ \A k \in 1..Len(loaded) :
           /\ loaded[k].eng_words # <<>>
           /\ loaded[k].fra_words # <<>>
           /\ Len(loaded[k].fra_words) <= WORD_LIMIT
           /\ loaded_from[k] \in 1..Len(rows)
           /\ loaded[k] = PairOf(rows[loaded_from[k]])
      /\ \A k, m \in 1..Len(loaded) : k < m => loaded_from[k] < loaded_from[m]
      /\ \A r \in 1..Len(rows) :
           (/\ rows[r][4] \notin SKIP_LIST
            /\ PairOf(rows[r]).eng_words # <<>>
            /\ PairOf(rows[r]).fra_words # <<>>
            /\ Len(PairOf(rows[r]).fra_words) <= WORD_LIMIT)
           => r \in Range(loaded_from)

\* A file of which two records are loaded, in order, around a record that is
\* dropped.
C8_Witness ==
    /\ pc = "eng_table"
    /\ Len(rows) = 3
    /\ loaded_from = <<1, 3>>
    /\ PairOf(rows[2]).fra_words = <<>>

\* The score of a pair, sum of the French counts / number of French tokens /
\* number of French tokens, compared as fractions.
ScoreLess(p, q) ==
    sum_freq(p.fra_words, fra_freq) * Len(q.fra_words) * Len(q.fra_words)
        < sum_freq(q.fra_words, fra_freq) * Len(p.fra_words) * Len(p.fra_words)

ScoreEqual(p, q) == ~ScoreLess(p, q) /\ ~ScoreLess(q, p)

\* The pairs of a list that have the score of p, in the order of the list.
SameScore(list, p) ==
    LET Test(q) == ScoreEqual(p, q) IN SelectSeq(list, Test)

C9_EmptyFailsLoudly ==
    /\ (ParseReturned /\ loaded = <<>>) =>
         /\ pc \in {"eng_table", "error"}
         /\ clozes = <<>>
         /\ units = <<>>
    /\ (pc \in {"minimized", "raised"} /\ min_lst = <<>>) =>
         /\ pc = "raised"
         /\ ~min_res.ok

\* A file whose records were all filtered out, and main stopped.
C9_Witness ==
    /\ pc = "error"
    /\ Len(rows) = 2
    /\ row_idx > Len(rows)
    /\ loaded = <<>>

\* Two pairs are duplicates of each other.
Duplicates(p, q) ==
    stripped(p.eng) = stripped(q.eng) \/ stripped(p.fra) = stripped(q.fra)

RECURSIVE IsSubsequence(_, _)
IsSubsequence(a, b) ==
    IF a = <<>> THEN TRUE
    ELSE IF b = <<>> THEN FALSE
    ELSE IF Head(a) = Head(b) THEN IsSubsequence(Tail(a), Tail(b))
    ELSE IsSubsequence(a, Tail(b))

\* C2: the list main hands to build_clozes holds no two duplicates; it is the
\* sorted list without the pairs that duplicate an earlier kept pair.
C2_Deduplicated ==
    pc \in {"first_last", "build", "dump", "done"} =>
      /\ \A k, m \in 1..Len(pairs) : k < m => ~Duplicates(pairs[k], pairs[m])
      /\ IsSubsequence(pairs, sort_pairs(loaded, fra_freq))
      /\ \A q \in Range(sort_pairs(loaded, fra_freq)) :
           \E p \in Range(pairs) : p = q \/ Duplicates(p, q)

\* text with its first occurrence of old replaced by new
RECURSIVE ReplaceFirst(_, _, _)
ReplaceFirst(text, old, new) ==
    IF text = <<>> THEN <<>>
    ELSE IF starts_with(text, old)
    THEN new \o SubSeq(text, Len(old) + 1, Len(text))
    ELSE <<Head(text)>> \o ReplaceFirst(Tail(text), old, new)

\* The number of places of text where s starts.
Occurrences(text, s) ==
    Cardinality({k \in 1..Len(text) : starts_with(SubSeq(text, k, Len(text)), s)})

\* C4: the clozed side of a card is the pair's text with the first occurrence
\* of the rarest word marked, one marked span in all; the other side is the
\* pair's text.
C4_SingleMarkedSpan ==
    InBuild =>
      \A k \in 1..Len(clozes) :
        LET e == origin[k]
            pair == pairs[e.idx]
            marked == CLOZE_OPEN \o e.word \o CLOZE_CLOSE
        IN  IF e.side = "eng"
            THEN /\ clozes[k].eng = ReplaceFirst(pair.eng, e.word, marked)
                 /\ Occurrences(clozes[k].eng, CLOZE_OPEN) = 1
                 /\ clozes[k].fra = pair.fra
            ELSE /\ clozes[k].fra = ReplaceFirst(pair.fra, e.word, marked)
                 /\ Occurrences(clozes[k].fra, CLOZE_OPEN) = 1
                 /\ clozes[k].eng = pair.eng

\* C5: no pair is loaded from a record whose French field is an entry of
\* SKIP_LIST.
C5_SkipList ==
    ParseReturned =>
      \A r \in 1..Len(rows) :
        rows[r][4] \in SKIP_LIST => r \notin Range(loaded_from)

====
